---- MODULE Spec2Model ----
(***************************************************************************)
(* The Convex backend of coderview: the users, interviews and comments     *)
(* tables, the public queries and mutations over them, and the Clerk       *)
(* webhook that feeds the users table.                                     *)
(*                                                                         *)
(* A table is the sequence of its documents in insertion order; the _id of *)
(* a document is its position in that sequence (documents are never        *)
(* deleted).  Strings that the code takes apart or puts together (ids,     *)
(* names) are sequences of characters; an optional value is None or        *)
(* Some(x).  Every mutation is one atomic step, as Convex runs it.         *)
(***************************************************************************)
EXTENDS Integers, Sequences, FiniteSets, TLC

\* ---------------------------------------------------------------- bounds
MaxRecords == 2
MaxTime == 1
MaxReqs == 2

\* ------------------------------------------------------- optional values
None == <<>>
Some(x) == <<x>>

\* ---------------------------------------------------------------- inputs
IdA == <<"a">>
IdB == <<"b">>
Identities == {IdA, IdB}
Sessions == {None} \cup {Some(i) : i \in Identities}
Emails == {"a@b.com", "c@d.com"}
Names == {<<"A">>}
Images == {Some("img")}
Statuses == {"scheduled", "in-progress", "completed"}
\* v.string(): a status updateInterview may be given, documented or not
StatusStrings == Statuses \cup {"paused"}
StreamCallIds == {<<"s">>, <<"r">>}
InterviewerLists == {<<IdB, IdA>>}
Titles == {"t"}
Descriptions == {None}
Contents == {"good"}
Ratings == {1, 5}
Times == 0 .. MaxTime

VARIABLES users, interviews, comments, now, secret, reqs, calls, last

vars == <<users, interviews, comments, now, secret, reqs, calls, last>>

\* documents stored so far, over all tables; an insert needs room for one more
TotalRecords == Len(users) + Len(interviews) + Len(comments)

DocIds == 1 .. MaxRecords

\* .collect(): the documents of an index range come in the order of their
\* creation; ids is the set of their _ids
RECURSIVE Collect(_)
Collect(ids) ==
    IF ids = {} THEN <<>>
    ELSE LET m == CHOOSE x \in ids : \A y \in ids : x <= y
         IN <<m>> \o Collect(ids \ {m})

\* .first() of a query: the first id or None
First(ids) == IF ids = <<>> THEN None ELSE Some(ids[1])

\* ctx.auth.getUserIdentity(): null without a valid session, else an
\* identity whose subject is the Clerk user id
Subject(session) == session[1]

\* if(!identity) throw: whether a handler gets past its identity check
Authorized(session) == session # None

\* Array.prototype.join
RECURSIVE Join(_, _)
Join(list, sep) ==
    IF list = <<>> THEN <<>>
    ELSE IF Len(list) = 1 THEN list[1]
    ELSE list[1] \o sep \o Join(Tail(list), sep)

\* ================================================================ users.ts
ByClerkId(tbl, clerkId) ==
    Collect({i \in DOMAIN tbl : tbl[i].clerkId = clerkId})

SyncUserArgs ==
    [clerkId : Identities, email : Emails, name : Names, image : Images]

NewUserAsInterviewer(args) ==
    [clerkId |-> args.clerkId, email |-> args.email, name |-> args.name,
     image |-> args.image, role |-> "interviewer"]

NewUser(args) ==
    [clerkId |-> args.clerkId, email |-> args.email, name |-> args.name,
     image |-> args.image, role |-> "candidate"]

ExistingUserNever(tbl, clerkId) == None

ExistingUser(tbl, clerkId) == First(ByClerkId(tbl, clerkId))

SyncUserOverwrite(tbl, args) ==
    LET existingUser == ExistingUser(tbl, args.clerkId)
    IN IF existingUser # None
       THEN [users |-> [tbl EXCEPT ![existingUser[1]] = NewUser(args)],
             ret |-> existingUser[1]]
       ELSE [users |-> Append(tbl, NewUser(args)), ret |-> Len(tbl) + 1]

\* the handler of syncUser: the table after the call and the returned _id
SyncUser(tbl, args) ==
    LET existingUser == ExistingUser(tbl, args.clerkId)
    IN IF existingUser # None
       THEN [users |-> tbl, ret |-> existingUser[1]]
       ELSE [users |-> Append(tbl, NewUser(args)), ret |-> Len(tbl) + 1]

SyncUserCall(args) ==
    /\ TotalRecords < MaxRecords \/ ExistingUser(users, args.clerkId) # None
    /\ LET r == SyncUser(users, args)
       IN /\ users' = r.users
          /\ last' = [op |-> "syncUser", via |-> None,
                      clerkId |-> args.clerkId, email |-> args.email,
                      err |-> "", ret |-> Some(r.ret)]
    /\ UNCHANGED <<interviews, comments, now, secret, reqs, calls>>

GetUsersCall(session) ==
    /\ last' = IF ~Authorized(session)
               THEN [op |-> "getUsers", signedIn |-> session # None,
                     err |-> "Unauthorized, user is not authenticated",
                     ret |-> None]
               ELSE [op |-> "getUsers", signedIn |-> session # None, err |-> "",
                     ret |-> Collect(DOMAIN users)]
    /\ UNCHANGED <<users, interviews, comments, now, secret, reqs, calls>>

GetUserByClerkIdCall(clerkId) ==
    /\ last' = [op |-> "getUserByClerkId", clerkId |-> clerkId, err |-> "",
                ret |-> ExistingUser(users, clerkId)]
    /\ UNCHANGED <<users, interviews, comments, now, secret, reqs, calls>>

\* ============================================================ interviews
CreateInterviewArgs ==
    [title : Titles, description : Descriptions, startTime : Times,
     status : Statuses, streamCallId : StreamCallIds, candidateId : Identities,
     interviewerIds : InterviewerLists]

\* the document createInterview inserts: the arguments, the list of
\* interviewer ids joined into one string; no endTime
InterviewDoc(args) ==
    [title |-> args.title, description |-> args.description,
     startTime |-> args.startTime, endTime |-> None, status |-> args.status,
     streamCallId |-> args.streamCallId, candidateId |-> args.candidateId,
     interviewerIds |-> Join(args.interviewerIds, <<",">>)]

PatchStatusOnly(doc, status, t) == [doc EXCEPT !.status = status]

PatchStatusAlwaysStamp(doc, status, t) ==
    [doc EXCEPT !.status = status, !.endTime = Some(t)]

PatchStatusAndStart(doc, status, t) ==
    [doc EXCEPT !.status = status, !.startTime = t,
                !.endTime = IF status = "completed" THEN Some(t) ELSE @]

\* the fields updateInterview patches into a document at time t
PatchStatus(doc, status, t) ==
    [doc EXCEPT !.status = status,
                !.endTime = IF status = "completed" THEN Some(t) ELSE @]

ByCandidateIdAll(tbl, candidateId) == Collect(DOMAIN tbl)

ByCandidateId(tbl, candidateId) ==
    Collect({i \in DOMAIN tbl : tbl[i].candidateId = candidateId})

ByStreamCallId(tbl, streamCallId) ==
    Collect({i \in DOMAIN tbl : tbl[i].streamCallId = streamCallId})

GetAllInterviewsCall(session) ==
    /\ last' = IF ~Authorized(session)
               THEN [op |-> "getAllInterviews", signedIn |-> session # None,
                     err |-> "Unauthorized", ret |-> None]
               ELSE [op |-> "getAllInterviews", signedIn |-> session # None,
                     err |-> "", ret |-> Collect(DOMAIN interviews)]
    /\ UNCHANGED <<users, interviews, comments, now, secret, reqs, calls>>

GetMyInterviewsCall(session) ==
    /\ last' = IF ~Authorized(session)
               THEN [op |-> "getMyInterviews", signedIn |-> session # None,
                     subject |-> session, err |-> "Unauthorized", ret |-> None]
               ELSE [op |-> "getMyInterviews", signedIn |-> session # None,
                     subject |-> session, err |-> "",
                     ret |-> ByCandidateId(interviews, Subject(session))]
    /\ UNCHANGED <<users, interviews, comments, now, secret, reqs, calls>>

GetInterviewByStreamCallIdCall(streamCallId) ==
    /\ last' = [op |-> "getInterviewByStreamCallId",
                streamCallId |-> streamCallId, err |-> "",
                ret |-> First(ByStreamCallId(interviews, streamCallId))]
    /\ UNCHANGED <<users, interviews, comments, now, secret, reqs, calls>>

CreateInterviewCallUnchecked(session, args) ==
    /\ TotalRecords < MaxRecords
    /\ interviews' = Append(interviews, InterviewDoc(args))
    /\ last' = [op |-> "createInterview", signedIn |-> session # None,
                interviewerIds |-> args.interviewerIds,
                err |-> "", ret |-> Len(interviews) + 1]
    /\ UNCHANGED <<users, comments, now, secret, reqs, calls>>

CreateInterviewCall(session, args) ==
    /\ IF ~Authorized(session)
       THEN /\ last' = [op |-> "createInterview", signedIn |-> session # None,
                        err |-> "Unauthorized", ret |-> None]
            /\ UNCHANGED interviews
       ELSE /\ TotalRecords < MaxRecords
            /\ interviews' = Append(interviews, InterviewDoc(args))
            /\ last' = [op |-> "createInterview", signedIn |-> session # None,
                        interviewerIds |-> args.interviewerIds,
                        err |-> "", ret |-> Len(interviews) + 1]
    /\ UNCHANGED <<users, comments, now, secret, reqs, calls>>

UpdateInterviewCallValidated(session, id, status) ==
    /\ IF ~Authorized(session)
       THEN /\ last' = [op |-> "updateInterview", signedIn |-> session # None,
                        id |-> id, status |-> status, err |-> "Unauthorized",
                        ret |-> None]
            /\ UNCHANGED interviews
       ELSE IF id \notin DOMAIN interviews
       THEN /\ last' = [op |-> "updateInterview", signedIn |-> session # None,
                        id |-> id, status |-> status,
                        err |-> "nonexistent document", ret |-> None]
            /\ UNCHANGED interviews
       ELSE IF status \notin Statuses \/ interviews[id].status = "completed"
       THEN /\ last' = [op |-> "updateInterview", signedIn |-> session # None,
                        id |-> id, status |-> status,
                        err |-> "invalid transition", ret |-> None]
            /\ UNCHANGED interviews
       ELSE /\ interviews' =
                [interviews EXCEPT ![id] = PatchStatus(@, status, now)]
            /\ last' = [op |-> "updateInterview", signedIn |-> session # None,
                        id |-> id, status |-> status, err |-> "", ret |-> None]
    /\ UNCHANGED <<users, comments, now, secret, reqs, calls>>

UpdateInterviewCall(session, id, status) ==
    /\ IF ~Authorized(session)
       THEN /\ last' = [op |-> "updateInterview", signedIn |-> session # None,
                        id |-> id, status |-> status, err |-> "Unauthorized",
                        ret |-> None]
            /\ UNCHANGED interviews
       ELSE IF id \notin DOMAIN interviews
       THEN /\ last' = [op |-> "updateInterview", signedIn |-> session # None,
                        id |-> id, status |-> status,
                        err |-> "nonexistent document", ret |-> None]
            /\ UNCHANGED interviews
       ELSE /\ interviews' =
                [interviews EXCEPT ![id] = PatchStatus(@, status, now)]
            /\ last' = [op |-> "updateInterview", signedIn |-> session # None,
                        id |-> id, status |-> status, err |-> "", ret |-> None]
    /\ UNCHANGED <<users, comments, now, secret, reqs, calls>>

\* the wall clock that Date.now() reads
Tick ==
    /\ now < MaxTime
    /\ now' = now + 1
    /\ last' = [op |-> "tick", err |-> ""]
    /\ UNCHANGED <<users, interviews, comments, secret, reqs, calls>>

(***************************************************************************)
(* updateInterview called by two signed-in clients at once.  A call is     *)
(* sent, and at some later moment Convex runs its handler as one           *)
(* transaction; calls[c] is the call of the client signed in as c.         *)
(***************************************************************************)
CallStatuses == {"in-progress", "completed"}

NoCall == [state |-> "none"]

\* the client signed in as c calls updateInterview(id, status)
SendUpdateInterview(c, id, status) ==
    /\ calls[c].state # "sent"
    /\ calls' = [calls EXCEPT ![c] =
                    [state |-> "sent", id |-> id, status |-> status]]
    /\ last' = [op |-> "send", err |-> ""]
    /\ UNCHANGED <<users, interviews, comments, now, secret, reqs>>

\* whether a call of another client for the same interview is in flight
Overlaps(c, id) ==
    \E d \in Identities \ {c} : calls[d].state = "sent" /\ calls[d].id = id

ApplyUpdateInterviewConflict(c) ==
    /\ calls[c].state = "sent"
    /\ LET id == calls[c].id
           status == calls[c].status
       IN IF id \notin DOMAIN interviews \/ Overlaps(c, id)
          THEN /\ calls' = [calls EXCEPT ![c] =
                               [state |-> "failed", id |-> id,
                                status |-> status,
                                overlapped |-> Overlaps(c, id)]]
               /\ last' = [op |-> "apply", caller |-> c, err |-> "conflict"]
               /\ UNCHANGED interviews
          ELSE /\ interviews' =
                   [interviews EXCEPT ![id] = PatchStatus(@, status, now)]
               /\ calls' = [calls EXCEPT ![c] =
                               [state |-> "ok", id |-> id, status |-> status,
                                overlapped |-> Overlaps(c, id)]]
               /\ last' = [op |-> "apply", caller |-> c, err |-> ""]
    /\ UNCHANGED <<users, comments, now, secret, reqs>>

\* the handler of updateInterview runs for the call of c, whose session is
\* valid; calls[c].overlapped tells whether another call for the same
\* interview was in flight at that moment
ApplyUpdateInterview(c) ==
    /\ calls[c].state = "sent"
    /\ LET id == calls[c].id
           status == calls[c].status
       IN IF ~Authorized(Some(c))
          THEN /\ calls' = [calls EXCEPT ![c] =
                               [state |-> "failed", id |-> id,
                                status |-> status,
                                overlapped |-> Overlaps(c, id)]]
               /\ last' = [op |-> "apply", caller |-> c, err |-> "Unauthorized"]
               /\ UNCHANGED interviews
          ELSE IF id \notin DOMAIN interviews
          THEN /\ calls' = [calls EXCEPT ![c] =
                               [state |-> "failed", id |-> id,
                                status |-> status,
                                overlapped |-> Overlaps(c, id)]]
               /\ last' = [op |-> "apply", caller |-> c,
                           err |-> "nonexistent document"]
               /\ UNCHANGED interviews
          ELSE /\ interviews' =
                   [interviews EXCEPT ![id] = PatchStatus(@, status, now)]
               /\ calls' = [calls EXCEPT ![c] =
                               [state |-> "ok", id |-> id, status |-> status,
                                overlapped |-> Overlaps(c, id)]]
               /\ last' = [op |-> "apply", caller |-> c, err |-> ""]
    /\ UNCHANGED <<users, comments, now, secret, reqs>>

\* ============================================================= comments.ts
AddCommentArgs ==
    [interviewId : DocIds, content : Contents, rating : Ratings]

CommentDocHardCoded(session, args) ==
    [interviewId |-> args.interviewId, content |-> args.content,
     rating |-> args.rating, interviewerId |-> IdA]

CommentDoc(session, args) ==
    [interviewId |-> args.interviewId, content |-> args.content,
     rating |-> args.rating, interviewerId |-> Subject(session)]

ByInterviewIdNewestFirst(tbl, interviewId) ==
    LET ids == Collect({i \in DOMAIN tbl : tbl[i].interviewId = interviewId})
    IN [k \in 1 .. Len(ids) |-> ids[Len(ids) + 1 - k]]

ByInterviewId(tbl, interviewId) ==
    Collect({i \in DOMAIN tbl : tbl[i].interviewId = interviewId})

AddCommentCallReplace(session, args) ==
    /\ IF ~Authorized(session)
       THEN /\ last' = [op |-> "addComment", signedIn |-> session # None,
                        subject |-> session, err |-> "Unauthorized", ret |-> None]
            /\ UNCHANGED comments
       ELSE /\ TotalRecords < MaxRecords \/ comments # <<>>
            /\ comments' = IF comments = <<>>
                           THEN <<CommentDoc(session, args)>>
                           ELSE [comments EXCEPT ![1] = CommentDoc(session, args)]
            /\ last' = [op |-> "addComment", signedIn |-> session # None,
                        subject |-> session, err |-> "", ret |-> 1]
    /\ UNCHANGED <<users, interviews, now, secret, reqs, calls>>

AddCommentCall(session, args) ==
    /\ IF ~Authorized(session)
       THEN /\ last' = [op |-> "addComment", signedIn |-> session # None,
                        subject |-> session, err |-> "Unauthorized", ret |-> None]
            /\ UNCHANGED comments
       ELSE /\ TotalRecords < MaxRecords
            /\ comments' = Append(comments, CommentDoc(session, args))
            /\ last' = [op |-> "addComment", signedIn |-> session # None,
                        subject |-> session, err |-> "",
                        ret |-> Len(comments) + 1]
    /\ UNCHANGED <<users, interviews, now, secret, reqs, calls>>

\* the handler of getComments never asks for the identity of its caller
GetCommentsCall(session, interviewId) ==
    /\ last' = [op |-> "getComments", signedIn |-> session # None,
                interviewId |-> interviewId, err |-> "",
                ret |-> ByInterviewId(comments, interviewId)]
    /\ UNCHANGED <<users, interviews, comments, now, secret, reqs, calls>>

\* ================================================================ http.ts
(***************************************************************************)
(* POST /clerk-webhook.  The handler is an httpAction: it runs step by     *)
(* step next to other requests, and only the mutation it calls is atomic.  *)
(* What a request carries is fixed when it is sent; each part is drawn at  *)
(* the step of the handler that first reads it.  reqs[r].pc is the place   *)
(* of request r in the handler.                                            *)
(***************************************************************************)
ReqIds == 1 .. MaxReqs

HeaderNames == {"svix-id", "svix-timestamp", "svix-signature"}

\* the svix headers a request carries: all three, or all but one
HeaderSets == {HeaderNames} \cup {HeaderNames \ {h} : h \in HeaderNames}

\* the raw body: the JSON text as Clerk serialised it, the same JSON with
\* other whitespace, or no JSON at all
BodyFormats == {"compact", "spaced", "malformed"}

\* the svix-signature and svix-timestamp of a request: who signed, which
\* text the signature covers, whether the timestamp is within tolerance
Signatures ==
    [by : {"clerk", "other"}, over : {"compact", "spaced"}, fresh : BOOLEAN]

EventTypes == {"user.created", "user.updated"}
EmailLists ==
    {<<>>, <<[email_address |-> "c@d.com"], [email_address |-> "a@b.com"]>>}
FirstNames == {Some(<<"A">>)}
LastNames == {None}

EventData ==
    [id : Identities, email_addresses : EmailLists, first_name : FirstNames,
     last_name : LastNames, image_url : Images]

\* evt.data of user.created events in more shapes: names absent, empty,
\* blank or padded, a list of one address, no image_url
FirstNamesWide ==
    FirstNames \cup
        {None, Some(<<>>), Some(<<" ">>), Some(<<" ", "A">>), Some(<<"A", " ">>)}
LastNamesWide ==
    LastNames \cup
        {Some(<<>>), Some(<<"B">>), Some(<<" ", "B">>), Some(<<"B", " ">>)}
EmailListsWide == EmailLists \cup {<<[email_address |-> "a@b.com"]>>}
ImagesWide == Images \cup {None}

EventDataWide ==
    [id : Identities, email_addresses : EmailListsWide,
     first_name : FirstNamesWide, last_name : LastNamesWide,
     image_url : ImagesWide]

\* JSON.stringify(await request.json()): the text the handler verifies
Stringify(format) == "compact"

\* Webhook.verify of svix: the signature must be Clerk's, cover the very
\* text it is given, and carry a timestamp within tolerance
Verify(body, sig) == sig.by = "clerk" /\ sig.over = body /\ sig.fresh

\* x || ""
OrEmpty(x) == IF x = None \/ x = Some(<<>>) THEN <<>> ELSE x[1]

Whitespace == {" "}

\* String.prototype.trim
RECURSIVE TrimStart(_)
TrimStart(str) ==
    IF str # <<>> /\ Head(str) \in Whitespace THEN TrimStart(Tail(str)) ELSE str

RECURSIVE TrimEnd(_)
TrimEnd(str) ==
    IF str # <<>> /\ str[Len(str)] \in Whitespace
    THEN TrimEnd(SubSeq(str, 1, Len(str) - 1))
    ELSE str

Trim(str) == TrimEnd(TrimStart(str))

DisplayNameUntrimmed(data) ==
    OrEmpty(data.first_name) \o <<" ">> \o OrEmpty(data.last_name)

\* `${first_name || ""} ${last_name || ""}`.trim()
DisplayName(data) ==
    Trim(OrEmpty(data.first_name) \o <<" ">> \o OrEmpty(data.last_name))

\* the arguments the handler passes to syncUser
SyncArgsOf(data) ==
    [clerkId |-> data.id, email |-> data.email_addresses[1].email_address,
     name |-> DisplayName(data), image |-> data.image_url]

NoRequest == [pc |-> "idle"]

Step(r) == [op |-> "webhook", err |-> ""]

\* a request arrives; requests are numbered in the order of arrival
Receive(r) ==
    /\ reqs[r].pc = "idle"
    /\ \A q \in ReqIds : q < r => reqs[q].pc # "idle"
    /\ reqs' = [reqs EXCEPT ![r] =
                   [pc |-> "secret", headers |-> None, body |-> None,
                    verified |-> None, type |-> None, data |-> None,
                    args |-> None, syncCalls |-> 0, response |-> None,
                    threw |-> ""]]
    /\ last' = Step(r)
    /\ UNCHANGED <<users, interviews, comments, now, secret, calls>>

CheckSecretSkipped(r) ==
    /\ reqs[r].pc = "secret"
    /\ reqs' = [reqs EXCEPT ![r] = [@ EXCEPT !.pc = "headers"]]
    /\ last' = Step(r)
    /\ UNCHANGED <<users, interviews, comments, now, secret, calls>>

\* step 1: the secret from the environment
CheckSecret(r) ==
    /\ reqs[r].pc = "secret"
    /\ reqs' = [reqs EXCEPT ![r] =
                   IF ~secret
                   THEN [@ EXCEPT
                           !.pc = "done",
                           !.threw = "missing clerk webhook secret environment variable"]
                   ELSE [@ EXCEPT !.pc = "headers"]]
    /\ last' = Step(r)
    /\ UNCHANGED <<users, interviews, comments, now, secret, calls>>

CheckHeadersNoReturn(r, present) ==
    /\ reqs[r].pc = "headers"
    /\ reqs' = [reqs EXCEPT ![r] =
                   [@ EXCEPT !.pc = "parse", !.headers = Some(present)]]
    /\ last' = Step(r)
    /\ UNCHANGED <<users, interviews, comments, now, secret, calls>>

\* steps 2 and 3: the three svix headers
CheckHeaders(r, present) ==
    /\ reqs[r].pc = "headers"
    /\ reqs' = [reqs EXCEPT ![r] =
                   IF present # HeaderNames
                   THEN [@ EXCEPT !.pc = "done", !.headers = Some(present),
                                  !.response = Some(400)]
                   ELSE [@ EXCEPT !.pc = "parse", !.headers = Some(present)]]
    /\ last' = Step(r)
    /\ UNCHANGED <<users, interviews, comments, now, secret, calls>>

\* step 4: request.json() and JSON.stringify
ParseBody(r, format) ==
    /\ reqs[r].pc = "parse"
    /\ reqs' = [reqs EXCEPT ![r] =
                   IF format = "malformed"
                   THEN [@ EXCEPT !.pc = "done", !.threw = "SyntaxError"]
                   ELSE [@ EXCEPT !.pc = "verify",
                                  !.body = Some(Stringify(format))]]
    /\ last' = Step(r)
    /\ UNCHANGED <<users, interviews, comments, now, secret, calls>>

VerifySignatureNoReturn(r, sig, type) ==
    /\ reqs[r].pc = "verify"
    /\ reqs' = [reqs EXCEPT ![r] =
                   [@ EXCEPT !.pc = "dispatch",
                             !.verified = Some(Verify(reqs[r].body[1], sig)),
                             !.type = Some(type)]]
    /\ last' = Step(r)
    /\ UNCHANGED <<users, interviews, comments, now, secret, calls>>

\* steps 5 and 6: wh.verify of the re-serialised body
VerifySignature(r, sig, type) ==
    /\ reqs[r].pc = "verify"
    /\ reqs' = [reqs EXCEPT ![r] =
                   IF ~Verify(reqs[r].body[1], sig)
                   THEN [@ EXCEPT !.pc = "done", !.verified = Some(FALSE),
                                  !.response = Some(400)]
                   ELSE [@ EXCEPT !.pc = "dispatch", !.verified = Some(TRUE),
                                  !.type = Some(type)]]
    /\ last' = Step(r)
    /\ UNCHANGED <<users, interviews, comments, now, secret, calls>>

DispatchAnyType(r, data) ==
    /\ reqs[r].pc = "dispatch"
    /\ reqs' = [reqs EXCEPT ![r] =
                   IF data.email_addresses = <<>>
                   THEN [@ EXCEPT !.pc = "done", !.data = Some(data),
                                  !.threw = "TypeError"]
                   ELSE [@ EXCEPT !.pc = "sync", !.data = Some(data),
                                  !.args = Some(SyncArgsOf(data))]]
    /\ last' = Step(r)
    /\ UNCHANGED <<users, interviews, comments, now, secret, calls>>

\* steps 7 and 8: the event type, and for user.created the data of the
\* event; email_addresses[0] of an empty list is undefined, and reading its
\* email_address throws outside every try.  reqs[r].data is evt.data
Dispatch(r, data) ==
    /\ reqs[r].pc = "dispatch"
    /\ reqs' = [reqs EXCEPT ![r] =
                   IF reqs[r].type # Some("user.created")
                   THEN [@ EXCEPT !.pc = "respond"]
                   ELSE IF data.email_addresses = <<>>
                   THEN [@ EXCEPT !.pc = "done", !.data = Some(data),
                                  !.threw = "TypeError"]
                   ELSE [@ EXCEPT !.pc = "sync", !.data = Some(data),
                                  !.args = Some(SyncArgsOf(data))]]
    /\ last' = Step(r)
    /\ UNCHANGED <<users, interviews, comments, now, secret, calls>>

RunSyncUserSwallow(r, raises) ==
    /\ reqs[r].pc = "sync"
    /\ LET args == reqs[r].args[1]
           res == SyncUser(users, args)
       IN /\ raises \/ TotalRecords < MaxRecords
               \/ ExistingUser(users, args.clerkId) # None
          /\ reqs' = [reqs EXCEPT ![r] =
                         [@ EXCEPT !.pc = "respond", !.data = None,
                                   !.args = None, !.syncCalls = @ + 1]]
          /\ users' = IF raises THEN users ELSE res.users
          /\ last' = [op |-> "syncUser", via |-> Some(r),
                      clerkId |-> args.clerkId, email |-> args.email,
                      err |-> IF raises THEN "raised" ELSE "",
                      ret |-> IF raises THEN None ELSE Some(res.ret)]
    /\ UNCHANGED <<interviews, comments, now, secret, calls>>

RunSyncUserStale(r, raises) ==
    /\ reqs[r].pc = "sync"
    /\ TotalRecords < MaxRecords
    /\ LET args == reqs[r].args[1]
       IN /\ reqs' = [reqs EXCEPT ![r] =
                         [@ EXCEPT !.pc = "respond", !.data = None,
                                   !.args = None, !.syncCalls = @ + 1]]
          /\ users' = Append(users, NewUser(args))
          /\ last' = [op |-> "syncUser", via |-> Some(r),
                      clerkId |-> args.clerkId, email |-> args.email,
                      err |-> "", ret |-> Some(Len(users) + 1)]
    /\ UNCHANGED <<interviews, comments, now, secret, calls>>

RunSyncUserRetry(r, raises) ==
    /\ reqs[r].pc = "sync"
    /\ LET args == reqs[r].args[1]
           res == SyncUser(users, args)
       IN IF raises
          THEN /\ reqs[r].syncCalls < 2
               /\ reqs' = [reqs EXCEPT ![r] = [@ EXCEPT !.syncCalls = @ + 1]]
               /\ last' = [op |-> "syncUser", via |-> Some(r),
                           clerkId |-> args.clerkId, email |-> args.email,
                           err |-> "raised", ret |-> None]
               /\ UNCHANGED users
          ELSE /\ TotalRecords < MaxRecords
                    \/ ExistingUser(users, args.clerkId) # None
               /\ reqs' = [reqs EXCEPT ![r] =
                              [@ EXCEPT !.pc = "respond", !.data = None,
                                        !.args = None, !.syncCalls = @ + 1]]
               /\ users' = res.users
               /\ last' = [op |-> "syncUser", via |-> Some(r),
                           clerkId |-> args.clerkId, email |-> args.email,
                           err |-> "", ret |-> Some(res.ret)]
    /\ UNCHANGED <<interviews, comments, now, secret, calls>>

\* step 9: ctx.runMutation(api.users.syncUser, ...) inside try; the
\* mutation is one transaction, and a mutation that raises stores nothing.
\* The event and the arguments are not read again once runMutation is over.
RunSyncUser(r, raises) ==
    /\ reqs[r].pc = "sync"
    /\ LET args == reqs[r].args[1]
           res == SyncUser(users, args)
       IN IF raises
          THEN /\ reqs' = [reqs EXCEPT ![r] =
                              [@ EXCEPT !.pc = "done", !.data = None,
                                        !.args = None, !.syncCalls = @ + 1,
                                        !.response = Some(500)]]
               /\ last' = [op |-> "syncUser", via |-> Some(r),
                           clerkId |-> args.clerkId, email |-> args.email,
                           err |-> "raised", ret |-> None]
               /\ UNCHANGED users
          ELSE /\ TotalRecords < MaxRecords
                    \/ ExistingUser(users, args.clerkId) # None
               /\ reqs' = [reqs EXCEPT ![r] =
                              [@ EXCEPT !.pc = "respond", !.data = None,
                                        !.args = None, !.syncCalls = @ + 1]]
               /\ users' = res.users
               /\ last' = [op |-> "syncUser", via |-> Some(r),
                           clerkId |-> args.clerkId, email |-> args.email,
                           err |-> "", ret |-> Some(res.ret)]
    /\ UNCHANGED <<interviews, comments, now, secret, calls>>

\* step 10
Respond(r) ==
    /\ reqs[r].pc = "respond"
    /\ reqs' = [reqs EXCEPT ![r] =
                   [@ EXCEPT !.pc = "done", !.response = Some(200)]]
    /\ last' = Step(r)
    /\ UNCHANGED <<users, interviews, comments, now, secret, calls>>

\* ========================================================= the client's UI
\* users.role in the schema
Roles == {"candidate", "interviewer"}

\* user?.id || "" of useUser()
ClerkIdOf(session) == IF session = None THEN <<>> ELSE Subject(session)

\* useQuery(api.users.getUserByClerkId, {clerkId}): undefined until the
\* query has loaded, then null or the user document
UseQuery(tbl, clerkId, loaded) ==
    IF ~loaded THEN [loaded |-> FALSE]
    ELSE LET user == ExistingUser(tbl, clerkId)
         IN [loaded |-> TRUE,
             doc |-> IF user = None THEN None ELSE Some(tbl[user[1]])]

\* userData?.role
RoleOf(userData) ==
    IF userData.loaded /\ userData.doc # None
    THEN Some(userData.doc[1].role)
    ELSE None

\* the hook useUserRole
UseUserRole(userData) ==
    [isLoading |-> ~userData.loaded,
     isInterviewer |-> RoleOf(userData) = Some("recruiter"),
     isCandidate |-> RoleOf(userData) = Some("candidate")]

\* the component DashboardBtn: null, or the link to /dashboard
DashboardBtn(flags) ==
    IF flags.isCandidate \/ flags.isLoading THEN None ELSE Some("/dashboard")

UseUserRoleCall(session, loaded) ==
    /\ LET userData == UseQuery(users, ClerkIdOf(session), loaded)
       IN last' = [op |-> "useUserRole", err |-> "", userData |-> userData,
                   ret |-> UseUserRole(userData)]
    /\ UNCHANGED <<users, interviews, comments, now, secret, reqs, calls>>

\* Navbar renders DashboardBtn inside SignedIn
DashboardBtnRender(session, loaded) ==
    /\ session # None
    /\ LET userData == UseQuery(users, ClerkIdOf(session), loaded)
       IN last' = [op |-> "DashboardBtn", err |-> "", userData |-> userData,
                   ret |-> DashboardBtn(UseUserRole(userData))]
    /\ UNCHANGED <<users, interviews, comments, now, secret, reqs, calls>>

\* ==================================================================== specs
\* a fresh deployment: empty tables, no request in flight
Fresh ==
    /\ users = <<>>
    /\ interviews = <<>>
    /\ comments = <<>>
    /\ now = 0
    /\ reqs = [r \in 1 .. MaxReqs |-> NoRequest]
    /\ calls = [c \in Identities |-> NoCall]
    /\ last = [op |-> "init", err |-> ""]

\* CLERK_WEBHOOK_SECRET is set
Init == Fresh /\ secret = TRUE

UsersNext ==
    \/ \E args \in SyncUserArgs : SyncUserCall(args)
    \/ \E s \in Sessions : GetUsersCall(s)
    \/ \E c \in Identities : GetUserByClerkIdCall(c)

InterviewsNext ==
    \/ \E s \in Sessions : GetAllInterviewsCall(s)
    \/ \E s \in Sessions : GetMyInterviewsCall(s)
    \/ \E c \in StreamCallIds : GetInterviewByStreamCallIdCall(c)
    \/ \E s \in Sessions, args \in CreateInterviewArgs :
           CreateInterviewCall(s, args)
    \/ \E s \in Sessions, id \in DocIds, st \in StatusStrings :
           UpdateInterviewCall(s, id, st)
    \/ Tick

CommentsNext ==
    \/ \E s \in Sessions, args \in AddCommentArgs : AddCommentCall(s, args)
    \/ \E s \in Sessions, i \in DocIds : GetCommentsCall(s, i)

\* every function a client can call
Next == UsersNext \/ InterviewsNext \/ CommentsNext

Spec == Init /\ [][Next]_vars

\* the interview registry alone
SpecInterviews == Init /\ [][InterviewsNext]_vars

\* the feedback store alone
SpecComments == Init /\ [][CommentsNext]_vars

\* the interviews that the clients of the race update: scheduled ones
ScheduledInterviews ==
    {args \in CreateInterviewArgs :
         /\ args.status = "scheduled" /\ args.startTime = 0
         /\ args.streamCallId = <<"s">> /\ args.candidateId = IdA}

ConcurrentNext ==
    \/ \E c \in Identities, args \in ScheduledInterviews :
           CreateInterviewCall(Some(c), args)
    \/ \E c \in Identities, id \in DocIds, st \in CallStatuses :
           SendUpdateInterview(c, id, st)
    \/ \E c \in Identities : ApplyUpdateInterview(c)
    \/ Tick

\* updateInterview calls of two clients in flight at once
SpecConcurrent == Init /\ [][ConcurrentNext]_vars

WebhookNext ==
    \/ \E r \in ReqIds : Receive(r)
    \/ \E r \in ReqIds : CheckSecret(r)
    \/ \E r \in ReqIds, present \in HeaderSets : CheckHeaders(r, present)
    \/ \E r \in ReqIds, format \in BodyFormats : ParseBody(r, format)
    \/ \E r \in ReqIds, sig \in Signatures, type \in EventTypes :
           VerifySignature(r, sig, type)
    \/ \E r \in ReqIds, data \in EventData : Dispatch(r, data)
    \/ \E r \in ReqIds, raises \in BOOLEAN : RunSyncUser(r, raises)
    \/ \E r \in ReqIds : Respond(r)
    \/ \E args \in SyncUserArgs : SyncUserCall(args)

\* a deployment with or without CLERK_WEBHOOK_SECRET
InitWebhook == Fresh /\ secret \in BOOLEAN

\* the webhook and the user directory it feeds
SpecWebhook == InitWebhook /\ [][WebhookNext]_vars

\* one delivery of the webhook, with events of every shape, next to direct
\* calls of syncUser
UserCreatedNext ==
    \/ Receive(1)
    \/ CheckSecret(1)
    \/ \E present \in HeaderSets : CheckHeaders(1, present)
    \/ \E format \in BodyFormats : ParseBody(1, format)
    \/ \E sig \in Signatures, type \in EventTypes : VerifySignature(1, sig, type)
    \/ \E data \in EventDataWide : Dispatch(1, data)
    \/ \E raises \in BOOLEAN : RunSyncUser(1, raises)
    \/ Respond(1)
    \/ \E args \in SyncUserArgs : SyncUserCall(args)

SpecUserCreated == Init /\ [][UserCreatedNext]_vars

\* the user documents the schema admits
UserDocs ==
    [clerkId : Identities, email : Emails, name : Names, image : Images,
     role : Roles]

\* a users table as the UI may find it: at most one user per clerkId; the
\* role of a user is whatever the schema admits
StoredUsers ==
    {<<>>} \cup {<<u>> : u \in UserDocs}
        \cup {tbl \in UserDocs \X UserDocs : tbl[1].clerkId # tbl[2].clerkId}

InitUI ==
    /\ users \in StoredUsers
    /\ interviews = <<>>
    /\ comments = <<>>
    /\ now = 0
    /\ secret = TRUE
    /\ reqs = [r \in 1 .. MaxReqs |-> NoRequest]
    /\ calls = [c \in Identities |-> NoCall]
    /\ last = [op |-> "init", err |-> ""]

UINext ==
    \/ \E s \in Sessions, loaded \in BOOLEAN : UseUserRoleCall(s, loaded)
    \/ \E s \in Sessions, loaded \in BOOLEAN : DashboardBtnRender(s, loaded)

\* the role hook and the dashboard button over a stored users table
SpecUI == InitUI /\ [][UINext]_vars

\* v.array(v.string()): lists of none, one or two interviewer ids, an id
\* being any string, one with a comma too
InterviewerIds == Identities \cup {<<"a", ",", "b">>}

InterviewerListsWide ==
    {<<>>} \cup {<<i>> : i \in InterviewerIds}
        \cup (InterviewerIds \X InterviewerIds)

InterviewsWide ==
    [title : Titles, description : Descriptions, startTime : {0},
     status : {"scheduled"}, streamCallId : StreamCallIds,
     candidateId : {IdA}, interviewerIds : InterviewerListsWide]

JoinNext ==
    \/ \E c \in Identities, args \in InterviewsWide :
           CreateInterviewCall(Some(c), args)
    \/ \E c \in StreamCallIds : GetInterviewByStreamCallIdCall(c)

\* createInterview with interviewer lists of every shape
SpecJoin == Init /\ [][JoinNext]_vars

\* the next step of the handler for request r
HandlerStep(r) ==
    \/ CheckSecret(r)
    \/ \E present \in HeaderSets : CheckHeaders(r, present)
    \/ \E format \in BodyFormats : ParseBody(r, format)
    \/ \E sig \in Signatures, type \in EventTypes : VerifySignature(r, sig, type)
    \/ \E data \in EventData : Dispatch(r, data)
    \/ \E raises \in BOOLEAN : RunSyncUser(r, raises)
    \/ Respond(r)

\* the runtime runs the handler of every request it has received on to its
\* end: no await of the handler waits forever
SpecWebhookFair ==
    SpecWebhook /\ \A r \in ReqIds : WF_vars(HandlerStep(r))

\* =================================================================== claims
NoDuplicates(ids) == \A i, j \in DOMAIN ids : ids[i] = ids[j] => i = j

Range(seq) == {seq[i] : i \in DOMAIN seq}

\* C1: a syncUser call that returns leaves exactly one user with the clerkId
\* it was given and returns the _id of that user, which is the _id the user
\* already had when the clerkId was known before the call (so a second call
\* returns what the first returned); no step leaves two users with one clerkId.
C1_SyncUserIdempotent ==
    [][/\ \A i, j \in DOMAIN users' :
              users'[i].clerkId = users'[j].clerkId => i = j
       /\ (last'.op = "syncUser" /\ last'.err = "") =>
              /\ ByClerkId(users', last'.clerkId) = <<last'.ret[1]>>
              /\ ByClerkId(users, last'.clerkId) # <<>> =>
                     ByClerkId(users, last'.clerkId) = <<last'.ret[1]>>]_vars

\* a second syncUser for a known clerkId, with another email, has returned
C1_Witness ==
    /\ last.op = "syncUser" /\ last.err = ""
    /\ Len(users) = 2
    /\ \E i \in DOMAIN users :
           /\ users[i].clerkId = last.clerkId
           /\ users[i].email # last.email
           /\ last.ret = Some(i)

\* C2: every interview has an endTime if and only if its status is
\* "completed".
C2_EndTimeIffCompleted ==
    \A i \in DOMAIN interviews :
        (interviews[i].endTime # None) <=> (interviews[i].status = "completed")

ProtectedOps ==
    {"getUsers", "getAllInterviews", "getMyInterviews", "createInterview",
     "updateInterview", "addComment"}

UnauthorizedErrors ==
    {"Unauthorized", "Unauthorized, user is not authenticated"}

\* C3: a call of a protected function without a valid session fails with
\* Unauthorized and leaves the three tables as they were.
C3_UnauthorizedNoMutation ==
    [][(last'.op \in ProtectedOps /\ ~last'.signedIn) =>
           /\ last'.err \in UnauthorizedErrors
           /\ users' = users
           /\ interviews' = interviews
           /\ comments' = comments]_vars

\* a protected mutation was refused while documents were stored
C3_Witness ==
    /\ last.op \in {"createInterview", "updateInterview", "addComment"}
    /\ ~last.signedIn
    /\ last.err = "Unauthorized"
    /\ users # <<>>
    /\ interviews # <<>>

\* C4: a request whose signature verification failed is answered with 400
\* and the handler stops there: it never calls syncUser, and the step that
\* rejects it leaves the users table as it was.
C4_BadSignatureRejected ==
    [][\A r \in ReqIds :
           (reqs'[r].pc # "idle" /\ reqs'[r].verified = Some(FALSE)) =>
               /\ reqs'[r].pc = "done"
               /\ reqs'[r].response = Some(400)
               /\ reqs'[r].syncCalls = 0
               /\ reqs'[r] # reqs[r] => users' = users]_vars

\* a request was rejected for its signature while a user was stored
C4_Witness ==
    \E r \in ReqIds :
        /\ reqs[r].pc = "done"
        /\ reqs[r].verified = Some(FALSE)
        /\ reqs[r].response = Some(400)
        /\ users # <<>>

CompletesScheduled(id) ==
    /\ last'.op = "updateInterview" /\ last'.err = "" /\ last'.id = id
    /\ interviews[id].status = "scheduled"
    /\ interviews[id].endTime = None
    /\ interviews'[id].status = "completed"

CreatesScheduled ==
    /\ last'.op = "createInterview" /\ last'.err = ""
    /\ interviews'[last'.ret].status = "scheduled"

\* C6 as stated: an interview created as "scheduled" has no endTime, and once
\* completed its endTime is present and not before its startTime.
C6_EndTimeNotBeforeStart ==
    [][/\ CreatesScheduled => interviews'[last'.ret].endTime = None
       /\ \A id \in DOMAIN interviews :
              CompletesScheduled(id) =>
                  /\ interviews'[id].endTime # None
                  /\ interviews'[id].endTime[1] >= interviews'[id].startTime]_vars

\* C6 amended: an interview created as "scheduled" has no endTime, and once
\* completed its endTime is the instant of the updateInterview call, whatever
\* its startTime.
C6_EndTimeIsUpdateInstant ==
    [][/\ CreatesScheduled => interviews'[last'.ret].endTime = None
       /\ \A id \in DOMAIN interviews :
              CompletesScheduled(id) => interviews'[id].endTime = Some(now)]_vars

\* an interview was completed before the start time it was created with
C6_Witness ==
    /\ last.op = "updateInterview" /\ last.err = ""
    /\ interviews[last.id].status = "completed"
    /\ interviews[last.id].endTime = Some(now)
    /\ interviews[last.id].startTime > now

\* C7: every stored user has the role candidate.
C7_RoleCandidate == \A i \in DOMAIN users : users[i].role = "candidate"

\* a user created through the webhook and a user created by a direct call
C7_Witness ==
    /\ Len(users) = 2
    /\ \E r \in ReqIds :
           /\ reqs[r].pc = "done"
           /\ reqs[r].syncCalls = 1
           /\ reqs[r].response = Some(200)

\* C8: syncUser for a clerkId that already has a user leaves every table as
\* it was, whatever email, name and image it is given.
C8_SyncExistingChangesNothing ==
    [][(last'.op = "syncUser" /\ ByClerkId(users, last'.clerkId) # <<>>) =>
           /\ users' = users
           /\ interviews' = interviews
           /\ comments' = comments]_vars

\* syncUser came back for a known clerkId with another email than stored,
\* next to a document of another table
C8_Witness ==
    /\ last.op = "syncUser" /\ last.err = ""
    /\ \E i \in DOMAIN users :
           users[i].clerkId = last.clerkId /\ users[i].email # last.email
    /\ Len(interviews) + Len(comments) > 0

\* C9: the comment addComment has just stored carries the subject of the
\* caller's session as interviewerId.
C9_CommentByCaller ==
    (last.op = "addComment" /\ last.err = "") =>
        comments[last.ret].interviewerId = Subject(last.subject)

\* two comments by two different callers
C9_Witness ==
    /\ last.op = "addComment" /\ last.err = ""
    /\ Len(comments) = 2
    /\ comments[1].interviewerId # comments[2].interviewerId

\* C10: a verified request whose event type is not "user.created" never
\* calls syncUser nor throws, none of its steps changes the users table, and
\* it ends with a 200 response.
C10_OtherEventsIgnored ==
    [][\A r \in ReqIds :
           (reqs'[r].pc # "idle" /\ reqs'[r].verified = Some(TRUE)
                /\ reqs'[r].type # Some("user.created")) =>
               /\ reqs'[r].syncCalls = 0
               /\ reqs'[r].threw = ""
               /\ reqs'[r].pc \in {"dispatch", "respond", "done"}
               /\ reqs'[r].pc = "done" <=> reqs'[r].response = Some(200)
               /\ reqs'[r].response \in {None, Some(200)}
               /\ reqs'[r] # reqs[r] => users' = users]_vars

\* a verified user.updated event was answered while a user was stored
C10_Witness ==
    \E r \in ReqIds :
        /\ reqs[r].pc = "done"
        /\ reqs[r].verified = Some(TRUE)
        /\ reqs[r].type = Some("user.updated")
        /\ reqs[r].response = Some(200)
        /\ users # <<>>

\* C11: a request that lacks one of the three svix headers is answered with
\* 400 by the header check and goes no further: its signature is never
\* verified, its body never read, syncUser never called, and the step that
\* rejects it leaves the users table as it was.
C11_MissingHeaderRejected ==
    [][\A r \in ReqIds :
           (reqs'[r].pc # "idle" /\ reqs'[r].headers # None
                /\ reqs'[r].headers[1] # HeaderNames) =>
               /\ reqs'[r].pc = "done"
               /\ reqs'[r].response = Some(400)
               /\ reqs'[r].threw = ""
               /\ reqs'[r].body = None
               /\ reqs'[r].verified = None
               /\ reqs'[r].syncCalls = 0
               /\ reqs'[r] # reqs[r] => users' = users]_vars

\* a request without svix-signature was rejected while a user was stored
C11_Witness ==
    \E r \in ReqIds :
        /\ reqs[r].pc = "done"
        /\ reqs[r].headers = Some(HeaderNames \ {"svix-signature"})
        /\ reqs[r].response = Some(400)
        /\ users # <<>>

\* the request whose handler has just called syncUser
Caller == last'.via[1]

ViaWebhook == last'.op = "syncUser" /\ last'.via # None

\* C12: when the syncUser call of a verified user.created request raises, the
\* request is answered with 500 and the users table is as it was before the
\* call; when it does not raise, the handler goes on to its last step, and a
\* request that has called syncUser is never answered with anything but 200
\* or 500, 500 only at the call that raised.
C12_SyncRaiseIs500 ==
    [][/\ ViaWebhook =>
              /\ reqs[Caller].verified = Some(TRUE)
              /\ reqs[Caller].type = Some("user.created")
              /\ last'.err # "" =>
                     /\ reqs'[Caller].pc = "done"
                     /\ reqs'[Caller].response = Some(500)
                     /\ users' = users
              /\ last'.err = "" =>
                     /\ reqs'[Caller].pc = "respond"
                     /\ reqs'[Caller].response = None
       /\ \A r \in ReqIds :
              (reqs'[r].pc # "idle" /\ reqs'[r].syncCalls > 0) =>
                  /\ reqs'[r].syncCalls = 1
                  /\ reqs'[r].pc \in {"respond", "done"}
                  /\ reqs'[r].pc = "done" =>
                         reqs'[r].response \in {Some(200), Some(500)}
                  /\ (reqs'[r].response = Some(500) /\ reqs[r] # reqs'[r]) =>
                         (ViaWebhook /\ Caller = r /\ last'.err # "")
                  /\ (reqs[r].pc = "respond" /\ reqs'[r] # reqs[r]) =>
                         reqs'[r].response = Some(200)]_vars

\* one request was answered 500 after its call raised and left no user, and
\* another was answered 200 after its call stored one
C12_Witness ==
    /\ Len(users) = 1
    /\ \E r, q \in ReqIds :
           /\ reqs[r].pc = "done" /\ reqs[r].syncCalls = 1
           /\ reqs[r].response = Some(500)
           /\ reqs[q].pc = "done" /\ reqs[q].syncCalls = 1
           /\ reqs[q].response = Some(200)

\* C13: no two interviews share a streamCallId.
C13_UniqueStreamCallId ==
    \A i, j \in DOMAIN interviews :
        interviews[i].streamCallId = interviews[j].streamCallId => i = j

\* an HTTP error status
ErrorStatuses == 400 .. 599

\* C14: a verified user.created request whose email_addresses list is empty
\* is over once the list has been read, with an error status as its response
\* and without a call of syncUser.
C14_EmptyEmailRejected ==
    \A r \in ReqIds :
        (reqs[r].pc # "idle" /\ reqs[r].verified = Some(TRUE)
             /\ reqs[r].type = Some("user.created") /\ reqs[r].data # None
             /\ reqs[r].data[1].email_addresses = <<>>) =>
            /\ reqs[r].pc = "done"
            /\ reqs[r].syncCalls = 0
            /\ reqs[r].response # None
            /\ reqs[r].response[1] \in ErrorStatuses

\* C15: the users table grows only in the syncUser call of a webhook request
\* that carried the three headers, passed verification and was of type
\* user.created.
C15_UsersOnlyViaWebhook ==
    [][users' # users =>
           /\ ViaWebhook
           /\ reqs[Caller].headers = Some(HeaderNames)
           /\ reqs[Caller].verified = Some(TRUE)
           /\ reqs[Caller].type = Some("user.created")]_vars

\* a field of evt.data, empty when absent
Part(x) == IF x = None THEN <<>> ELSE x[1]

\* str is full without the whitespace full begins and ends with
IsTrimOf(str, full) ==
    /\ str # <<>> => str[1] \notin Whitespace /\ str[Len(str)] \notin Whitespace
    /\ \E i \in 1 .. Len(full) + 1, j \in 0 .. Len(full) :
           /\ str = SubSeq(full, i, j)
           /\ \A k \in 1 .. Len(full) : (k < i \/ k > j) => full[k] \in Whitespace

\* C16: the syncUser call of a verified user.created request whose data.id is
\* not in the directory appends one user: clerkId is data.id, email the
\* email_address of the first entry of email_addresses, name the first_name,
\* a space and the last_name (an absent part empty) without the whitespace
\* around them, image the image_url, role candidate.
C16_UserFromEvent ==
    [][(ViaWebhook /\ last'.err = ""
            /\ ByClerkId(users, reqs[Caller].data[1].id) = <<>>) =>
           LET data == reqs[Caller].data[1]
               user == users'[Len(users')]
           IN /\ reqs[Caller].verified = Some(TRUE)
              /\ reqs[Caller].type = Some("user.created")
              /\ data.email_addresses # <<>>
              /\ users' = Append(users, user)
              /\ DOMAIN user = {"clerkId", "email", "name", "image", "role"}
              /\ user.clerkId = data.id
              /\ user.email = data.email_addresses[1].email_address
              /\ IsTrimOf(user.name,
                          Part(data.first_name) \o <<" ">> \o Part(data.last_name))
              /\ user.image = data.image_url
              /\ user.role = "candidate"]_vars

\* the webhook has added, next to another user, a user without image whose
\* name is the last name alone: the space of the join was trimmed away
C16_Witness ==
    /\ last.op = "syncUser" /\ last.via # None /\ last.err = ""
    /\ Len(users) = 2
    /\ last.ret = Some(2)
    /\ users[2].name = <<"B">>
    /\ users[2].image = None

\* C17: getComments, called with or without a session, returns without
\* error the comments whose interviewId is its argument, each once, an
\* earlier comment before a later one.
C17_CommentsOfInterview ==
    last.op = "getComments" =>
        /\ last.err = ""
        /\ \A k \in 1 .. Len(last.ret) - 1 : last.ret[k] < last.ret[k + 1]
        /\ Range(last.ret) =
               {i \in DOMAIN comments :
                    comments[i].interviewId = last.interviewId}

\* a caller without session got the two comments of one interview
C17_Witness ==
    /\ last.op = "getComments" /\ ~last.signedIn
    /\ Len(last.ret) = 2

\* how many users of tbl carry clerkId
Count(tbl, clerkId) ==
    Cardinality({i \in DOMAIN tbl : tbl[i].clerkId = clerkId})

\* C18: however the steps of several deliveries interleave, no step leaves
\* two users with one clerkId, a user once stored stays, and a delivery whose
\* syncUser call has returned leaves exactly one user with the id it carried.
C18_OneRecordPerIdentity ==
    [][/\ \A c \in Identities :
              /\ Count(users', c) <= 1
              /\ Count(users, c) = 1 => Count(users', c) = 1
       /\ (ViaWebhook /\ last'.err = "") =>
              Count(users', last'.clerkId) = 1]_vars

\* two deliveries in flight at once have both called syncUser, neither has
\* been answered yet, and one user is stored: both carried the same id
C18_Witness ==
    /\ Len(users) = 1
    /\ \E r, q \in ReqIds :
           /\ r # q
           /\ reqs[r].pc = "respond" /\ reqs[r].syncCalls = 1
           /\ reqs[q].pc = "respond" /\ reqs[q].syncCalls = 1

\* C19: an updateInterview call that returns has set the status of its
\* interview to the status it was given; the endTime is the instant of the
\* call when that status is "completed" and else what it was before, absent
\* or not; nothing else of the interview and no other interview has changed.
C19_EndTimeOnlyOnCompleted ==
    [][(last'.op = "updateInterview" /\ last'.err = "") =>
           LET id == last'.id
               old == interviews[id]
               new == interviews'[id]
           IN /\ DOMAIN interviews' = DOMAIN interviews
              /\ \A i \in DOMAIN interviews : i # id => interviews'[i] = interviews[i]
              /\ new.status = last'.status
              /\ last'.status = "completed" => new.endTime = Some(now)
              /\ last'.status # "completed" => new.endTime = old.endTime
              /\ \A f \in DOMAIN old \ {"status", "endTime"} : new[f] = old[f]]_vars

\* an interview completed at an earlier instant was set to "in-progress" and
\* has kept its endTime
C19_Witness ==
    /\ last.op = "updateInterview" /\ last.err = ""
    /\ last.status = "in-progress"
    /\ interviews[last.id].endTime # None
    /\ interviews[last.id].endTime[1] < now

\* C20: an updateInterview call of a signed-in caller for a stored interview
\* returns without error, whatever the status of the interview and whatever
\* the status given, and the interview then has the status given.
C20_AnyTransitionAccepted ==
    (last.op = "updateInterview" /\ last.signedIn
         /\ last.id \in DOMAIN interviews) =>
        /\ last.err = ""
        /\ interviews[last.id].status = last.status

\* an interview that was completed before now has a status outside the
\* documented three
C20_Witness ==
    /\ last.op = "updateInterview" /\ last.err = ""
    /\ last.status \notin Statuses
    /\ interviews[last.id].status = last.status
    /\ interviews[last.id].endTime # None

\* C21: the updateInterview call of a signed-in client for a stored
\* interview is applied once and without error, whether or not a call of
\* another client for the same interview is in flight, and leaves the
\* interview with the status it carries, whatever an earlier call wrote.
C21_LastWriteWins ==
    [][\A c \in Identities :
           (last'.op = "apply" /\ last'.caller = c
                /\ calls[c].id \in DOMAIN interviews) =>
               /\ last'.err = ""
               /\ calls'[c].state = "ok"
               /\ interviews'[calls[c].id].status = calls[c].status
               /\ \A d \in Identities \ {c} : calls'[d] = calls[d]]_vars

\* two clients had calls with different statuses for one interview in flight
\* at once; both were applied, and the interview has the status of the one
\* applied last
C21_Witness ==
    /\ last.op = "apply" /\ last.err = ""
    /\ \E c \in Identities :
           LET d == last.caller
           IN /\ c # d
              /\ calls[c].state = "ok" /\ calls[c].overlapped
              /\ calls[d].state = "ok" /\ ~calls[d].overlapped
              /\ calls[c].id = calls[d].id
              /\ calls[c].status # calls[d].status
              /\ interviews[calls[d].id].status = calls[d].status

\* C22: the body of a request has been read and parsed only if its signature
\* has been verified: a request whose body the handler holds, or whose body
\* failed to parse, passed verification before.
C22_ParsedAfterVerified ==
    \A r \in ReqIds :
        (reqs[r].pc # "idle"
             /\ (reqs[r].body # None \/ reqs[r].threw = "SyntaxError")) =>
            reqs[r].verified = Some(TRUE)

MissingSecret == "missing clerk webhook secret environment variable"

\* C23: without CLERK_WEBHOOK_SECRET a request ends at the first step of the
\* handler by the thrown error: it gets no response, its headers and body
\* are never read, syncUser is never called, and the step that ends it
\* leaves the users table as it was.
C23_NoSecretThrows ==
    [][~secret =>
           \A r \in ReqIds :
               /\ reqs'[r].pc \in {"idle", "secret", "done"}
               /\ reqs'[r].pc = "done" =>
                      /\ reqs'[r].threw = MissingSecret
                      /\ reqs'[r].response = None
                      /\ reqs'[r].headers = None
                      /\ reqs'[r].body = None
                      /\ reqs'[r].syncCalls = 0
               /\ reqs'[r] # reqs[r] => users' = users]_vars

\* a request ended by the thrown error in a deployment that holds a user
C23_Witness ==
    /\ ~secret
    /\ users # <<>>
    /\ \E r \in ReqIds :
           /\ reqs[r].pc = "done"
           /\ reqs[r].threw = MissingSecret
           /\ reqs[r].response = None

\* C24: no call of a client function changes or removes a stored comment:
\* after every step each comment is where it was, with the content, rating,
\* interviewerId and interviewId it had.
C24_CommentsImmutable ==
    [][\A i \in DOMAIN comments :
           /\ i \in DOMAIN comments'
           /\ comments'[i].content = comments[i].content
           /\ comments'[i].rating = comments[i].rating
           /\ comments'[i].interviewerId = comments[i].interviewerId
           /\ comments'[i].interviewId = comments[i].interviewId]_vars

\* the interview that a stored comment is about has just been updated
C24_Witness ==
    /\ last.op = "updateInterview" /\ last.err = ""
    /\ comments # <<>>
    /\ comments[1].interviewId = last.id

FrameFields ==
    {"title", "description", "startTime", "streamCallId", "candidateId",
     "interviewerIds"}

\* C25: an updateInterview call that returns leaves the users and the
\* comments as they were, every other interview as it was, and of its own
\* interview the title, description, startTime, streamCallId, candidateId
\* and interviewerIds; the endTime too unless the status given is
\* "completed".
C25_UpdateFrame ==
    [][(last'.op = "updateInterview" /\ last'.err = "") =>
           /\ users' = users
           /\ comments' = comments
           /\ Len(interviews') = Len(interviews)
           /\ \A i \in DOMAIN interviews :
                  IF i # last'.id
                  THEN interviews'[i] = interviews[i]
                  ELSE /\ DOMAIN interviews'[i] = DOMAIN interviews[i]
                       /\ \A f \in FrameFields :
                              interviews'[i][f] = interviews[i][f]
                       /\ last'.status # "completed" =>
                              interviews'[i].endTime = interviews[i].endTime]_vars

\* an interview was completed at a later instant than its startTime, in a
\* deployment that holds a user or a comment
C25_Witness ==
    /\ last.op = "updateInterview" /\ last.err = ""
    /\ last.status = "completed"
    /\ interviews[last.id].startTime < now
    /\ Len(users) + Len(comments) > 0

\* how the handler of a request ended: by a response or by a thrown error
Outcomes(req) ==
    {o \in {"200", "400", "500", "fault"} :
         \/ o = "200" /\ req.response = Some(200)
         \/ o = "400" /\ req.response = Some(400)
         \/ o = "500" /\ req.response = Some(500)
         \/ o = "fault" /\ req.threw # ""}

\* a request whose handler is running has neither a response nor a fault,
\* one whose handler is over has exactly one of them, and syncUser was
\* called at most once for it
OneOutcome(req) ==
    /\ req.syncCalls <= 1
    /\ Cardinality(Outcomes(req)) = IF req.pc = "done" THEN 1 ELSE 0
    /\ req.response \in {None, Some(200), Some(400), Some(500)}

\* C26: the handler of every received request comes to its end, with exactly
\* one outcome (a 200, 400 or 500 response, or a thrown error) and at most
\* one call of syncUser; once over, the request never changes again.
C26_OneTerminalOutcome ==
    /\ [](\A r \in ReqIds : reqs[r].pc # "idle" => OneOutcome(reqs[r]))
    /\ [][\A r \in ReqIds : reqs[r].pc = "done" => reqs'[r] = reqs[r]]_vars
    /\ \A r \in ReqIds : (reqs[r].pc # "idle") ~> (reqs[r].pc = "done")

\* one request was answered 200 after its one call of syncUser, another
\* ended by a thrown error
C26_Witness ==
    \E r, q \in ReqIds :
        /\ reqs[r].pc = "done" /\ reqs[r].syncCalls = 1
        /\ Outcomes(reqs[r]) = {"200"}
        /\ reqs[q].pc = "done" /\ Outcomes(reqs[q]) = {"fault"}

\* C27: for a loaded user document, useUserRole reports isInterviewer
\* exactly when the stored role is "interviewer" and isCandidate exactly when
\* it is "candidate", so exactly one of the two.
C27_FlagsMatchRole ==
    (last.op = "useUserRole" /\ RoleOf(last.userData) # None) =>
        /\ last.ret.isInterviewer <=> RoleOf(last.userData) = Some("interviewer")
        /\ last.ret.isCandidate <=> RoleOf(last.userData) = Some("candidate")
        /\ last.ret.isInterviewer # last.ret.isCandidate

\* C28: DashboardBtn renders the link exactly when the query has loaded a
\* user document whose role is "interviewer"; it renders nothing while the
\* query is loading, for a candidate, and when no document was found.
C28_DashboardOnlyInterviewer ==
    last.op = "DashboardBtn" =>
        (last.ret # None <=> RoleOf(last.userData) = Some("interviewer"))

\* the positions of sep in str
Places(str, sep) == {k \in DOMAIN str : str[k] = sep}

\* String.prototype.split with a separator of one character
RECURSIVE Split(_, _)
Split(str, sep) ==
    IF Places(str, sep) = {} THEN <<str>>
    ELSE LET k == CHOOSE x \in Places(str, sep) :
                      \A y \in Places(str, sep) : x <= y
         IN <<SubSeq(str, 1, k - 1)>> \o Split(SubSeq(str, k + 1, Len(str)), sep)

\* C29: the interviewerIds that createInterview has stored, split on ",",
\* are the list of ids it was given.
C29_JoinSplitRoundTrip ==
    (last.op = "createInterview" /\ last.err = "") =>
        Split(interviews[last.ret].interviewerIds, ",") = last.interviewerIds

====
